---- MODULE Spec2Model ----
(***************************************************************************)
(* Model of the backup tool.                                               *)
(*                                                                         *)
(* Spec:       BackupRunner.run_all and the per-database pipeline          *)
(*             BackupRunner.backup_database (backup_tool/backup.py), with  *)
(*             the helpers of backup_tool/utils.py it uses.                *)
(* SpecUpload: one call of CloudUploader.upload, down to the requests of   *)
(*             YandexDiskUploader.upload (backup_tool/cloud.py).           *)
(* SpecText:   normalize_remote_directory and mask_sensitive applied to    *)
(*             every input of a bounded size.                              *)
(* SpecShared: run_all as in Spec, over a backup directory that two        *)
(*             databases share.                                            *)
(* SpecConfig: load_config, save_config and the add-base command on one    *)
(*             configuration document (backup_tool/config.py).             *)
(*                                                                         *)
(* Text (names, paths, commands, secret values) is a sequence of           *)
(* one-character strings, so prefixes, slugs and substitutions are         *)
(* computed and not assumed.  Time is counted in days.                     *)
(***************************************************************************)
EXTENDS Integers, Sequences, FiniteSets, TLC

\* ------------------------------------------------------------------ bounds
\* entries of config.databases one run iterates over
MaxDatabases == 2
\* the day datetime.now() falls on during the run
Today == 5
\* expired archives whose unlink may fail in one retention pass
MaxUnlinkFailures == 1
\* characters of a path handed to normalize_remote_directory
MaxPathLen == 4
\* characters of a text handed to mask_sensitive
MaxTextLen == 2
\* entries of the secrets list handed to mask_sensitive
MaxSecrets == 1
\* characters of one secret value
MaxSecretLen == 2
\* entries of the 'databases' list of a configuration document
MaxItems == 2

\* -------------------------------------------------------------------- text
DigitChar == <<"0", "1", "2", "3", "4", "5", "6", "7", "8", "9">>

Digits == {DigitChar[i] : i \in 1..10}

LatinLower == {"a", "b", "c", "d", "e", "k", "p", "s", "t", "u", "w", "z"}

LatinUpper == {"B", "D"}

\* the character class [0-9A-Za-zА-Яа-я_] of slugify
WordChars == Digits \cup LatinLower \cup LatinUpper \cup {"_"}

Whitespace == {" "}

StartsWith(s, p) == Len(p) <= Len(s) /\ SubSeq(s, 1, Len(p)) = p

EndsWith(s, p) == Len(p) <= Len(s) /\ SubSeq(s, Len(s) - Len(p) + 1, Len(s)) = p

RECURSIVE LStrip(_, _)
LStrip(s, chars) ==
    IF s # <<>> /\ Head(s) \in chars THEN LStrip(Tail(s), chars) ELSE s

RECURSIVE RStrip(_, _)
RStrip(s, chars) ==
    IF s # <<>> /\ s[Len(s)] \in chars
    THEN RStrip(SubSeq(s, 1, Len(s) - 1), chars)
    ELSE s

Strip(s, chars) == RStrip(LStrip(s, chars), chars)

\* re.sub(r"[^0-9A-Za-zА-Яа-я_]+", "_", value): every maximal run of
\* characters outside the class becomes one underscore
RECURSIVE SubNonWord(_)
SubNonWord(s) ==
    IF s = <<>> THEN <<>>
    ELSE IF Head(s) \in WordChars THEN <<Head(s)>> \o SubNonWord(Tail(s))
    ELSE <<"_">> \o SubNonWord(LStrip(s, {c \in {s[i] : i \in 1..Len(s)} : c \notin WordChars}))

\* re.sub(r"_+", "_", sanitized)
RECURSIVE CollapseUnderscores(_)
CollapseUnderscores(s) ==
    IF s = <<>> THEN <<>>
    ELSE IF Head(s) = "_" THEN <<"_">> \o CollapseUnderscores(LStrip(s, {"_"}))
    ELSE <<Head(s)>> \o CollapseUnderscores(Tail(s))

Fallback == <<"b", "a", "c", "k", "u", "p">>

slugify(value) ==
    LET stripped == Strip(value, Whitespace)
        sanitized == Strip(CollapseUnderscores(SubNonWord(stripped)), {"_"})
    IN IF sanitized = <<>> THEN Fallback ELSE sanitized

LowerChar(c) == CASE c = "B" -> "b" [] c = "D" -> "d" [] OTHER -> c

Lower(s) == [i \in 1..Len(s) |-> LowerChar(s[i])]

\* dt.strftime("%Y_%m_%d_%H_%M_%S"): the day number written in decimal
timestamp_for_filename(dt) == <<DigitChar[dt + 1]>>

ZipSuffix == <<".", "z", "i", "p">>

\* ------------------------------------------------------ templates, masking
\* A template is a sequence of tokens: a literal character or a placeholder
\* {key}.
Lit(c) == [kind |-> "lit", v |-> c]

Var(key) == [kind |-> "var", v |-> key]

\* the keys a template references that the context lacks, in template order
MissingKeys(template, context) ==
    SelectSeq(template, LAMBDA t : t.kind = "var" /\ t.v \notin DOMAIN context)

RECURSIVE FormatMap(_, _)
FormatMap(template, context) ==
    IF template = <<>> THEN <<>>
    ELSE (IF Head(template).kind = "lit"
          THEN <<Head(template).v>>
          ELSE context[Head(template).v])
         \o FormatMap(Tail(template), context)

\* a format_map that substitutes the empty text for a key the context lacks
RECURSIVE FormatMapMissingAsEmpty(_, _)
FormatMapMissingAsEmpty(template, context) ==
    IF template = <<>> THEN <<>>
    ELSE (IF Head(template).kind = "lit"
          THEN <<Head(template).v>>
          ELSE IF Head(template).v \in DOMAIN context
          THEN context[Head(template).v]
          ELSE <<>>)
         \o FormatMapMissingAsEmpty(Tail(template), context)

\* a render_template without StrictTemplateDict: it never raises
RenderTemplateMissingAsEmpty(template, context) ==
    [ok |-> TRUE, value |-> FormatMapMissingAsEmpty(template, context), missing |-> ""]

\* render_template: the empty template is returned unchanged; a placeholder
\* missing from the context raises KeyError naming the first missing key
render_template(template, context) ==
    IF template = <<>> THEN [ok |-> TRUE, value |-> <<>>, missing |-> ""]
    ELSE IF MissingKeys(template, context) # <<>>
    THEN [ok |-> FALSE, value |-> <<>>, missing |-> Head(MissingKeys(template, context)).v]
    ELSE [ok |-> TRUE, value |-> FormatMap(template, context), missing |-> ""]

\* the redaction marker of mask_sensitive
Marker == <<"*", "*", "*">>

\* str.replace(old, new) for a non-empty old: the occurrences are found left
\* to right and do not overlap
RECURSIVE Replace(_, _, _)
Replace(s, old, new) ==
    IF Len(s) < Len(old) THEN s
    ELSE IF StartsWith(s, old)
    THEN new \o Replace(SubSeq(s, Len(old) + 1, Len(s)), old, new)
    ELSE <<Head(s)>> \o Replace(Tail(s), old, new)

\* mask_sensitive: the secrets are replaced one after the other, in list
\* order, each in the result of the replacements before it; an empty secret
\* is skipped
RECURSIVE mask_sensitive(_, _)
mask_sensitive(value, secretlist) ==
    IF secretlist = <<>> THEN value
    ELSE mask_sensitive(IF Head(secretlist) # <<>>
                        THEN Replace(value, Head(secretlist), Marker)
                        ELSE value,
                        Tail(secretlist))

\* ------------------------------------------------------------ secret store
\* SecretManager.get_secret: the plaintext of a stored secret, or
\* SecretNotFoundError for a name the store does not hold
SecretStore ==
    ("sql_user" :> <<"s", "a">>) @@ ("sql_pass" :> <<"p", "w">>)
        @@ ("pg_pass" :> <<"e", "s">>) @@ ("ya_token" :> <<"t", "k">>)
        @@ ("ya_login" :> <<"u">>) @@ ("ya_pass" :> <<"k", "e">>)

HasSecret(name) == name \in DOMAIN SecretStore

get_secret(name) == SecretStore[name]

\* ------------------------------------------------------------ configuration
NameDb == <<"d", "b">>

NameDb2 == <<"d", "b", " ", "2">>

PrefixBk == <<"b", "k">>

\* "dump {sql_dump_file}"
TplPlain == <<Lit("d"), Lit(" "), Var("sql_dump_file")>>

\* "dump {sql_login} {sql_password} {sql_dump_file}"
TplCred ==
    <<Lit("d"), Lit(" "), Var("sql_login"), Lit(" "), Var("sql_password"),
      Lit(" "), Var("sql_dump_file")>>

\* ServiceControl: a command is a string, "" when not configured
Service(stop, start, restart) ==
    [stop_command |-> stop, start_command |-> start, restart_command |-> restart]

ServiceControls ==
    {Service("", "", ""), Service("", "start", ""), Service("stop", "", ""),
     Service("stop", "start", ""), Service("stop", "", "restart"),
     Service("stop", "start", "restart")}

\* SQLConfig: secret references are names of the secret store, "" when not
\* configured; env_from_secrets is a list of (variable, secret name) pairs
Sql(command, login, password, envs) ==
    [dump_command |-> command, dump_extension |-> <<"d", "t">>,
     login_secret |-> login, password_secret |-> password,
     env_from_secrets |-> envs]

NoSql == Sql(<<>>, "", "", <<>>)

EnvFrom(secret) == <<[env |-> "PGPASSWORD", secret |-> secret]>>

\* dump commands with no, some or all credentials, stored or missing
SQLConfigs ==
    {Sql(TplPlain, "", "", <<>>),
     Sql(TplPlain, "", "", EnvFrom("pg_pass")),
     Sql(TplPlain, "", "", EnvFrom("gone")),
     Sql(TplPlain, "gone", "", <<>>),
     Sql(TplCred, "sql_user", "sql_pass", <<>>),
     Sql(TplCred, "sql_user", "gone", <<>>),
     Sql(TplCred, "sql_user", "", <<>>),
     Sql(TplCred, "sql_user", "sql_pass", EnvFrom("pg_pass"))}

Cloud(enabled) == [enabled |-> enabled]

\* CloudConfig with all its fields: provider and the secret references are
\* strings, "" when not configured; remote_path is a template, <<>> when
\* not configured
CloudConfig(enabled, provider, remote_path, token_secret, login_secret, password_secret) ==
    [enabled |-> enabled, provider |-> provider, remote_path |-> remote_path,
     token_secret |-> token_secret, login_secret |-> login_secret,
     password_secret |-> password_secret]

NoCloudConfig == CloudConfig(FALSE, "", <<>>, "", "", "")

\* YandexDiskUploader: a field is <<>> when it is None
Uploader(token, login, password) == [token |-> token, login |-> login, password |-> password]

NoUploader == Uploader(<<>>, <<>>, <<>>)

Database(name, type, source, prefix, days, cloud, service, sql) ==
    [name |-> name, type |-> type, source |-> source, backup_prefix |-> prefix,
     retention_days |-> days, cloud |-> cloud, service |-> service, sql |-> sql]

SourcePath == <<"s", "r", "c">>

\* the SQL setups that come with a service to stop: credentials that are
\* stored, and a password that is missing
SQLConfigsWithService ==
    {Sql(TplCred, "sql_user", "sql_pass", <<>>), Sql(TplCred, "sql_user", "gone", <<>>)}

\* every service setup for a file database, every SQL setup without a
\* service, and two SQL setups with a service to stop and start; retention
\* is switched off here and varied in RetentionConfigs
LifecycleConfigs ==
    {Database(NameDb, "file", SourcePath, <<>>, 0, Cloud(TRUE), sv, NoSql) :
        sv \in ServiceControls}
    \cup {Database(NameDb, "sql", <<>>, <<>>, 0, Cloud(TRUE), Service("", "", ""), sq) :
            sq \in SQLConfigs}
    \cup {Database(NameDb, "sql", <<>>, <<>>, 0, Cloud(TRUE),
                    Service("stop", "start", ""), sq) :
            sq \in SQLConfigsWithService}

\* every name and prefix with every retention and cloud setting
RetentionConfigs ==
    {Database(np[1], "file", SourcePath, np[2], days, Cloud(enabled),
              Service("", "", ""), NoSql) :
        np \in {<<NameDb, <<>> >>, <<NameDb2, <<>> >>, <<NameDb2, PrefixBk>>},
        days \in {0, 2}, enabled \in BOOLEAN}

\* the DatabaseConfig records of the model; each passes DatabaseConfig.validate
DatabaseConfigs == LifecycleConfigs \cup RetentionConfigs

\* the value of `only` handed to run_all: no filter, or a list of names
OnlyChoices == {{}, {<<"D", "B">>}}

\* ---------------------------------------------------------------- the disk
BackupDir == <<"b", "k", "p">>

ArchiveName(prefix, day) == prefix \o <<"_">> \o timestamp_for_filename(day) \o ZipSuffix

File(name, mtime, is_file) == [name |-> name, mtime |-> mtime, is_file |-> is_file]

\* what the backup directory holds before the run: archives of earlier runs
\* of several ages and prefixes, a file that is no archive, and a directory
InitialFiles ==
    { File(ArchiveName(<<"d", "b">>, Today - 3), Today - 3, TRUE),
      File(ArchiveName(<<"d", "b">>, Today - 4), Today - 4, TRUE),
      File(ArchiveName(<<"d", "b">>, Today - 2), Today - 2, TRUE),
      File(ArchiveName(<<"b", "k">>, Today - 3), Today - 3, TRUE),
      File(ArchiveName(<<"z">>, Today - 3), Today - 3, TRUE),
      File(<<"d", "b", "_", "1", ".", "t", "x", "t">>, Today - 4, TRUE),
      File(ArchiveName(<<"d", "b">>, 0), 0, FALSE) }

\* an existing entry of the same name is replaced (ZipFile(path, "w"))
WriteFile(dir, f) == {g \in dir : g.name # f.name} \cup {f}

\* ------------------------------------------------------------------- state
VARIABLES
    pc,              \* where the run stands: loop, stop, archive, sql_dump,
                     \* retention, upload, finally, returned, done
    only,            \* run_all's argument
    index,           \* entries of config.databases iterated so far
    dbnames,         \* their names, in configuration order
    database,        \* the DatabaseConfig backup_database works on
    errors,          \* run_all's list of "name: reason" entries
    result,          \* how run_all ended: running, ok, or the exception type
    files,           \* the backup directory
    tmp_dirs,        \* temporary dump directories that exist
    context,         \* backup_database's template context
    sensitive_keys,  \* backup_database's sensitive_keys
    service_stopped, \* backup_database's service_stopped
    exc,             \* the exception in flight in backup_database
    secrets,         \* _backup_sql_database's list of resolved secret values
    env,             \* _backup_sql_database's environment additions
    dump_seen,       \* what _backup_sql_database found after the dump command:
                     \* none (not run), nonzero, empty, files
    log,             \* the records _backup_sql_database handed to the logger,
                     \* and the message of the error it raised
    events,          \* history: what this database's pipeline did, in order
    attempted,       \* history: the calls of backup_database and how each ended
    files_before,    \* history: the backup directory when the pipeline began
    retention_input, \* history: the backup directory when retention began
    unlink_failed,   \* history: the files whose unlink raised OSError
    uploaded         \* history: the context handed to CloudUploader.upload

\* CloudUploader.upload and YandexDiskUploader.upload, one call
VARIABLES
    upload_pc,       \* where the call stands: call, mkcol, put, returned
    cloud_config,    \* the CloudConfig of the call
    cloud_context,   \* the context of the call
    file_exists,     \* whether file_path exists
    uploader,        \* the YandexDiskUploader's token, login and password
    normalized_dir,  \* YandexDiskUploader.upload's normalized_dir
    segments,        \* ensure_remote_directory: the segments still to walk
    current,         \* ensure_remote_directory's current
    remote,          \* the directories that exist on the server
    upload_exc,      \* the exception the call raised
    requests,        \* history: the requests sent, with the status received
    lookups,         \* history: the secret names looked up
    renders          \* history: the templates rendered

cloud_vars ==
    <<upload_pc, cloud_config, cloud_context, file_exists, uploader, normalized_dir,
      segments, current, remote, upload_exc, requests, lookups, renders>>

\* a pure function of utils.py or cloud.py applied to one input
VARIABLES
    fn,              \* the function: none, normalize_remote_directory, mask_sensitive
    fn_input,        \* its arguments
    fn_output,       \* its result, and the result of applying it again
    fn_done          \* whether it has been applied

text_vars == <<fn, fn_input, fn_output, fn_done>>

backup_vars ==
    <<pc, only, index, dbnames, database, errors, result, files, tmp_dirs,
      context, sensitive_keys, service_stopped, exc, secrets, env, dump_seen,
      log, events, attempted, files_before, retention_input, unlink_failed,
      uploaded>>

\* load_config, save_config and the add-base command on one document
VARIABLES
    config_pc,       \* where the run stands: idle, start, loaded, failed, saved, reloaded
    document,        \* the parsed YAML document of the configuration file
    app_config,      \* what load_config gave: the AppConfig or the error raised
    saved,           \* the document save_config wrote
    reloaded         \* what load_config gave for the saved document

config_vars == <<config_pc, document, app_config, saved, reloaded>>

vars == <<backup_vars, cloud_vars, text_vars, config_vars>>

\* ------------------------------------------------------------- exceptions
\* msg is what str(exc) shows; context is the __context__ chain: the
\* messages of the exceptions that were in flight when this one was raised
NoExc == [type |-> "None", msg |-> <<>>, context |-> <<>>]

Raise(type, what, arg) == [type |-> type, msg |-> <<what, arg>>, context |-> <<>>]

\* raising `new` while `old` is in flight: `new` propagates, `old` is kept
\* only as its __context__
RaiseDuring(old, new) ==
    IF old = NoExc THEN new
    ELSE [new EXCEPT !.context = <<old.msg>> \o old.context]

NoDatabase ==
    Database(<<>>, "file", <<>>, <<>>, 0, Cloud(FALSE), Service("", "", ""), NoSql)

EmptyContext == [k \in {} |-> <<>>]

Event(op, cmd, ok) == [op |-> op, cmd |-> cmd, ok |-> ok]

\* -------------------------------------------------------- backup_database
SafeName(db) == slugify(IF db.backup_prefix # <<>> THEN db.backup_prefix ELSE db.name)

ArchiveFileName(db, now) == ArchiveName(SafeName(db), now)

ArchivePath(db, now) == BackupDir \o <<"/">> \o ArchiveFileName(db, now)

TypeText(t) == IF t = "file" THEN <<"f">> ELSE <<"s">>

\* _base_context; of the clock-derived entries only `timestamp` is kept
BaseContext(db, now) ==
    ("name" :> db.name) @@ ("safe_name" :> SafeName(db))
        @@ ("source" :> db.source) @@ ("backup_directory" :> BackupDir)
        @@ ("backup_path" :> ArchivePath(db, now))
        @@ ("backup_filename" :> ArchiveFileName(db, now))
        @@ ("timestamp" :> timestamp_for_filename(now))
        @@ ("retention_days" :> <<DigitChar[db.retention_days + 1]>>)
        @@ ("type" :> TypeText(db.type))

\* _run_command: nothing happens for an empty command; otherwise the
\* command runs and a timeout or a nonzero exit raises BackupError
CommandOutcomes == {"ok", "nonzero", "timeout"}

\* a run that forgets the timeout: TimeoutExpired is not turned into a failure
RunCommandIgnoringTimeout(command, outcome) ==
    IF command = "" THEN NoExc
    ELSE IF outcome = "nonzero" THEN Raise("BackupError", "exit_code", command)
    ELSE NoExc

RunCommand(command, outcome) ==
    IF command = "" THEN NoExc
    ELSE IF outcome = "timeout" THEN Raise("BackupError", "timeout", command)
    ELSE IF outcome = "nonzero" THEN Raise("BackupError", "exit_code", command)
    ELSE NoExc

\* the try block of backup_database: an exception raised by a stage skips
\* the stages after it and enters the finally block
\* a pipeline that goes on to the next stage whatever the stage raised
NextStageRegardless(raised, stage) == stage

NextStage(raised, stage) == IF raised = NoExc THEN stage ELSE "finally"

\* no call of CloudUploader.upload is under way
NoUploadCall ==
    /\ upload_pc = "idle"
    /\ cloud_config = NoCloudConfig
    /\ cloud_context = EmptyContext
    /\ file_exists = FALSE
    /\ uploader = NoUploader
    /\ normalized_dir = <<>>
    /\ segments = <<>>
    /\ current = <<>>
    /\ remote = {}
    /\ upload_exc = NoExc
    /\ requests = <<>>
    /\ lookups = <<>>
    /\ renders = <<>>

\* no function application is under way
NoFunctionCall ==
    /\ fn = "none"
    /\ fn_input = <<>>
    /\ fn_output = <<>>
    /\ fn_done = FALSE

\* a document without content, and load_config not called
EmptyDocument == [kind |-> "empty", databases |-> <<>>]

NotLoaded == [raised |-> "", returned |-> FALSE, databases |-> <<>>]

\* no configuration file is being loaded
NoConfigCall ==
    /\ config_pc = "idle"
    /\ document = EmptyDocument
    /\ app_config = NotLoaded
    /\ saved = EmptyDocument
    /\ reloaded = NotLoaded

\* run_all is about to start
InitBackup ==
    /\ pc = "loop"
    /\ only \in OnlyChoices
    /\ index = 0
    /\ dbnames = <<>>
    /\ database = NoDatabase
    /\ errors = <<>>
    /\ result = "running"
    /\ files = InitialFiles
    /\ tmp_dirs = {}
    /\ context = EmptyContext
    /\ sensitive_keys = <<>>
    /\ service_stopped = FALSE
    /\ exc = NoExc
    /\ secrets = <<>>
    /\ env = {}
    /\ dump_seen = "none"
    /\ log = <<>>
    /\ events = <<>>
    /\ attempted = <<>>
    /\ files_before = InitialFiles
    /\ retention_input = {}
    /\ unlink_failed = {}
    /\ uploaded = EmptyContext

Init == InitBackup /\ NoUploadCall /\ NoFunctionCall /\ NoConfigCall

\* run_all line 55: the lower-cased names, or None (here the empty set)
NamesFilter(names) == {Lower(n) : n \in names}

\* a filter that compares the names as they are written
FilteredOutCaseSensitive(db, names) == names # {} /\ db.name \notin names

FilteredOut(db, names) ==
    NamesFilter(names) # {} /\ Lower(db.name) \notin NamesFilter(names)

\* The locals of backup_database as they are on entry (lines 70-80).
EnterBackupDatabase(db) ==
    /\ database' = db
    /\ context' = BaseContext(db, Today)
    /\ sensitive_keys' = <<>>
    /\ service_stopped' = FALSE
    /\ exc' = NoExc
    /\ secrets' = <<>>
    /\ env' = {}
    /\ dump_seen' = "none"
    /\ log' = <<>>
    /\ events' = <<>>
    /\ files_before' = files
    /\ retention_input' = {}
    /\ unlink_failed' = {}
    /\ uploaded' = EmptyContext
    /\ pc' = "stop"

\* run_all, one iteration of the for loop: the next entry of
\* config.databases is skipped by the filter or handed to backup_database
RunAllNext ==
    /\ pc = "loop"
    /\ index < MaxDatabases
    /\ \E db \in DatabaseConfigs :
        /\ index' = index + 1
        /\ dbnames' = Append(dbnames, db.name)
        /\ IF FilteredOut(db, only)
           THEN UNCHANGED <<pc, database, context, sensitive_keys, service_stopped,
                            exc, secrets, env, dump_seen, log, events,
                            files_before,
                            retention_input, unlink_failed, uploaded>>
           ELSE EnterBackupDatabase(db)
    /\ UNCHANGED <<only, errors, result, files, tmp_dirs, attempted>>
    /\ UNCHANGED <<cloud_vars, text_vars, config_vars>>

\* backup_database lines 82-88: the stop command
StopService ==
    /\ pc = "stop"
    /\ LET command == database.service.stop_command IN
        IF command = ""
        THEN /\ pc' = "archive"
             /\ UNCHANGED <<exc, service_stopped, events>>
        ELSE \E outcome \in CommandOutcomes :
            LET raised == RunCommand(command, outcome) IN
            /\ events' = Append(events, Event("stop", command, outcome = "ok"))
            /\ exc' = raised
            /\ service_stopped' = (raised = NoExc)
            /\ pc' = NextStage(raised, "archive")
    /\ UNCHANGED <<only, index, dbnames, database, errors, result, files, tmp_dirs,
                   context, sensitive_keys, secrets, env, dump_seen, log, attempted,
                   files_before,
                   retention_input, unlink_failed, uploaded>>
    /\ UNCHANGED <<cloud_vars, text_vars, config_vars>>

\* --------------------------------------------------- archive production
\* how writing the zip ends: written, OSError before the file was created,
\* OSError with a truncated file left behind
ZipOutcomes == {"ok", "failed_unopened", "failed_partial"}

ZipRaised(outcome) ==
    IF outcome = "ok" THEN NoExc ELSE Raise("OSError", "zip", outcome)

ZipWrite(dir, name, outcome) ==
    IF outcome = "failed_unopened" THEN dir ELSE WriteFile(dir, File(name, Today, TRUE))

\* _backup_file_database: [raised, files]
BackupFileDatabaseResult(db, dir, source_exists, zip) ==
    IF db.source = <<>>
    THEN [raised |-> Raise("BackupError", "no_source", ""), files |-> dir]
    ELSE IF ~source_exists
    THEN [raised |-> Raise("BackupError", "source_not_found", ""), files |-> dir]
    ELSE [raised |-> ZipRaised(zip), files |-> ZipWrite(dir, ArchiveFileName(db, Today), zip)]

BackupFileDatabase ==
    /\ pc = "archive"
    /\ database.type = "file"
    /\ \E source_exists \in BOOLEAN, zip \in ZipOutcomes :
        LET r == BackupFileDatabaseResult(database, files, source_exists, zip) IN
        /\ files' = r.files
        /\ exc' = r.raised
        /\ events' = Append(events, Event("archive", "", source_exists /\ zip = "ok"))
        /\ pc' = NextStage(r.raised, "retention")
    /\ UNCHANGED <<only, index, dbnames, database, errors, result, tmp_dirs, context,
                   sensitive_keys, service_stopped, secrets, env, dump_seen, log, attempted,
                   files_before, retention_input, unlink_failed, uploaded>>
    /\ UNCHANGED <<cloud_vars, text_vars, config_vars>>

\* TemporaryDirectory(prefix="backup_<safe_name>_")
TmpDir(db) == <<"t", "/">> \o SafeName(db)

\* lines 179-181: the extension gets its leading dot
DumpExtension(sql) ==
    LET ext == IF sql.dump_extension # <<>> THEN sql.dump_extension ELSE <<".", "d", "t">>
    IN IF Head(ext) = "." THEN ext ELSE <<".">> \o ext

DumpFile(db) == TmpDir(db) \o <<"/">> \o SafeName(db) \o DumpExtension(db.sql)

\* a cleanup written after the block instead of around it: an exception
\* skips it
ExitTemporaryDirectoryOnSuccess(dirs, d, raised) ==
    IF raised = NoExc THEN dirs \ {d} ELSE dirs

\* leaving the `with TemporaryDirectory(...)` block, normally or by an
\* exception, removes the directory

ExitTemporaryDirectory(dirs, d, raised) == dirs \ {d}

\* a lookup that lets the store's own error through
GetSecretRaisedUnwrapped(name) ==
    IF HasSecret(name) THEN NoExc ELSE Raise("SecretNotFoundError", "secret_not_found", name)

\* _get_secret (backup.py): SecretNotFoundError becomes BackupError
GetSecretRaised(name) ==
    IF HasSecret(name) THEN NoExc ELSE Raise("BackupError", "secret_not_found", name)

SetEnv(e, name, value) ==
    {x \in e : x.name # name} \cup {[name |-> name, value |-> value]}

\* lines 205-208: the env_from_secrets loop, stopped by the first missing
\* secret; acc is [raised, env, secrets]
RECURSIVE ResolveEnv(_, _)
ResolveEnv(pairs, acc) ==
    IF pairs = <<>> \/ acc.raised # NoExc THEN acc
    ELSE LET p == Head(pairs) IN
        IF HasSecret(p.secret)
        THEN ResolveEnv(Tail(pairs),
                [raised |-> NoExc,
                 env |-> SetEnv(acc.env, p.env, get_secret(p.secret)),
                 secrets |-> Append(acc.secrets, get_secret(p.secret))])
        ELSE [acc EXCEPT !.raised = GetSecretRaised(p.secret)]

\* lines 186-208: the context and the secrets after the lookups, each
\* assignment made only if every lookup before it succeeded
ResolveSecrets(db, ctx0) ==
    LET sql == db.sql
        ctx1 == ("sql_dump_dir" :> TmpDir(db)) @@ ("sql_dump_file" :> DumpFile(db)) @@ ctx0
        wantLogin == sql.login_secret # ""
        loginRaised == IF wantLogin THEN GetSecretRaised(sql.login_secret) ELSE NoExc
        gotLogin == wantLogin /\ loginRaised = NoExc
        ctx2 == IF gotLogin THEN ("sql_login" :> get_secret(sql.login_secret)) @@ ctx1 ELSE ctx1
        keys2 == IF gotLogin THEN <<"sql_login">> ELSE <<>>
        sec2 == IF gotLogin THEN <<get_secret(sql.login_secret)>> ELSE <<>>
        wantPw == loginRaised = NoExc /\ sql.password_secret # ""
        pwRaised == IF wantPw THEN GetSecretRaised(sql.password_secret) ELSE NoExc
        gotPw == wantPw /\ pwRaised = NoExc
        ctx3 == IF gotPw THEN ("sql_password" :> get_secret(sql.password_secret)) @@ ctx2 ELSE ctx2
        keys3 == IF gotPw THEN Append(keys2, "sql_password") ELSE keys2
        sec3 == IF gotPw THEN Append(sec2, get_secret(sql.password_secret)) ELSE sec2
        raised3 == IF loginRaised # NoExc THEN loginRaised ELSE pwRaised
        envd == ResolveEnv(sql.env_from_secrets,
                           [raised |-> raised3, env |-> {}, secrets |-> sec3])
    IN [raised |-> envd.raised, context |-> ctx3, sensitive_keys |-> keys3,
        secrets |-> envd.secrets, env |-> envd.env]

\* _backup_sql_database lines 173-208: the temporary directory is created
\* and the secrets are resolved
BackupSqlPrepare ==
    /\ pc = "archive"
    /\ database.type = "sql"
    /\ IF database.sql.dump_command = <<>>
       THEN /\ exc' = Raise("BackupError", "no_dump_command", "")
            /\ events' = Append(events, Event("archive", "", FALSE))
            /\ pc' = "finally"
            /\ UNCHANGED <<tmp_dirs, context, sensitive_keys, secrets, env>>
       ELSE LET r == ResolveSecrets(database, context)
                created == tmp_dirs \cup {TmpDir(database)} IN
            /\ context' = r.context
            /\ sensitive_keys' = sensitive_keys \o r.sensitive_keys
            /\ secrets' = r.secrets
            /\ env' = r.env
            /\ exc' = r.raised
            /\ pc' = NextStage(r.raised, "sql_dump")
            /\ IF r.raised = NoExc
               THEN /\ tmp_dirs' = created
                    /\ UNCHANGED events
               ELSE /\ tmp_dirs' = ExitTemporaryDirectory(created, TmpDir(database), r.raised)
                    /\ events' = Append(events, Event("archive", "", FALSE))
    /\ UNCHANGED <<only, index, dbnames, database, errors, result, files,
                   service_stopped, dump_seen, log, attempted, files_before,
                   retention_input, unlink_failed, uploaded>>
    /\ UNCHANGED <<cloud_vars, text_vars, config_vars>>

\* a packaging step that zips the temporary area without looking for files
PackageDumpUnchecked(db, dir, returncode, produced, zip) ==
    IF returncode # 0
    THEN [raised |-> Raise("BackupError", "dump_exit", ""), files |-> dir]
    ELSE [raised |-> ZipRaised(zip), files |-> ZipWrite(dir, ArchiveFileName(db, Today), zip)]

\* lines 226-236 after the dump command ran: [raised, files]
PackageDumpResult(db, dir, returncode, produced, zip) ==
    IF returncode # 0
    THEN [raised |-> Raise("BackupError", "dump_exit", ""), files |-> dir]
    ELSE IF ~produced
    THEN [raised |-> Raise("BackupError", "no_dump_files", ""), files |-> dir]
    ELSE [raised |-> ZipRaised(zip), files |-> ZipWrite(dir, ArchiveFileName(db, Today), zip)]

\* what the dump command left behind, as lines 226-233 find it
DumpSeen(returncode, produced) ==
    IF returncode # 0 THEN "nonzero" ELSE IF ~produced THEN "empty" ELSE "files"

\* what the dump command may write to stdout and stderr: nothing, or on
\* both a line that repeats the password it was given
Outputs == {<< <<>>, <<>> >>, << <<"p", "w", " ">>, <<"p", "w", " ">> >>}

Record(kind, text) == [kind |-> kind, text |-> text]

\* lines 211-229: the records handed to the logger, in order, and the
\* message of the BackupError raised for a nonzero exit
DumpLog(command, secretlist, stdout, stderr, returncode) ==
    <<Record("command", mask_sensitive(command, secretlist))>>
    \o (IF stdout # <<>> THEN <<Record("stdout", Strip(stdout, Whitespace))>> ELSE <<>>)
    \o (IF stderr # <<>>
        THEN <<Record("stderr", mask_sensitive(Strip(stderr, Whitespace), secretlist))>>
        ELSE <<>>)
    \o (IF returncode # 0
        THEN <<Record("error", mask_sensitive(Strip(stderr, Whitespace), secretlist))>>
        ELSE <<>>)

\* _backup_sql_database lines 210-236: the dump command is rendered and
\* run, its output is packaged, and the temporary directory is left
BackupSqlDump ==
    /\ pc = "sql_dump"
    /\ LET command == render_template(database.sql.dump_command, context) IN
        IF ~command.ok
        THEN /\ exc' = Raise("KeyError", "template_missing_key", command.missing)
             /\ events' = Append(events, Event("archive", "", FALSE))
             /\ tmp_dirs' = ExitTemporaryDirectory(tmp_dirs, TmpDir(database), exc')
             /\ UNCHANGED <<files, dump_seen, log>>
        ELSE \E returncode \in {0, 1}, produced \in BOOLEAN, zip \in ZipOutcomes,
                output \in Outputs :
            LET r == PackageDumpResult(database, files, returncode, produced, zip)
                stdout == output[1]
                stderr == output[2] IN
            /\ files' = r.files
            /\ exc' = r.raised
            /\ dump_seen' = DumpSeen(returncode, produced)
            /\ log' = DumpLog(command.value, secrets, stdout, stderr, returncode)
            /\ events' = events \o <<Event("dump", "dump", returncode = 0),
                                      Event("archive", "",
                                            returncode = 0 /\ produced /\ zip = "ok")>>
            /\ tmp_dirs' = ExitTemporaryDirectory(tmp_dirs, TmpDir(database), r.raised)
    /\ pc' = NextStage(exc', "retention")
    /\ UNCHANGED <<only, index, dbnames, database, errors, result, context,
                   sensitive_keys, service_stopped, secrets, env, attempted,
                   files_before, retention_input, unlink_failed, uploaded>>
    /\ UNCHANGED <<cloud_vars, text_vars, config_vars>>

\* ------------------------------------------------------------- retention
\* backup_dir.glob("*.zip") entries that are regular files
IsArchive(f) == EndsWith(f.name, ZipSuffix) /\ f.is_file

RetentionPrefix(db) == SafeName(db) \o <<"_">>

\* a retention that forgets the prefix test of line 258
RetentionCandidatesAnyPrefix(db, dir, now) ==
    IF db.retention_days <= 0 THEN {}
    ELSE {f \in dir : IsArchive(f) /\ f.mtime < now - db.retention_days}

\* _enforce_retention lines 250-260: the files it calls unlink on
RetentionCandidates(db, dir, now) ==
    IF db.retention_days <= 0 THEN {}
    ELSE {f \in dir :
            /\ IsArchive(f)
            /\ StartsWith(f.name, RetentionPrefix(db))
            /\ f.mtime < now - db.retention_days}

\* lines 261-265: an unlink that raises OSError is logged and the loop goes on
AfterUnlinks(dir, candidates, failed) == dir \ (candidates \ failed)

\* a retention without the except clause: the OSError propagates
UnlinkRaisedFatal(failed) ==
    IF failed = {} THEN NoExc ELSE Raise("OSError", "unlink", "")

\* lines 264-265: what _enforce_retention raises when unlinks failed
UnlinkRaised(failed) == NoExc

EnforceRetention ==
    /\ pc = "retention"
    /\ LET candidates == RetentionCandidates(database, files, Today) IN
        \E failed \in SUBSET candidates :
            /\ Cardinality(failed) <= MaxUnlinkFailures
            /\ files' = AfterUnlinks(files, candidates, failed)
            /\ unlink_failed' = failed
            /\ exc' = UnlinkRaised(failed)
    /\ retention_input' = files
    /\ events' = Append(events, Event("retention", "", TRUE))
    /\ pc' = NextStage(exc', "upload")
    /\ UNCHANGED <<only, index, dbnames, database, errors, result, tmp_dirs, context,
                   sensitive_keys, service_stopped, secrets, env, dump_seen, log, attempted,
                   files_before, uploaded>>
    /\ UNCHANGED <<cloud_vars, text_vars, config_vars>>

\* ---------------------------------------------------------------- upload
Range(seq) == {seq[i] : i \in 1..Len(seq)}

\* the whole context handed on
CloudContextUnfiltered(ctx, keys) == ctx

\* line 100: the context without the sensitive keys
CloudContext(ctx, keys) == [k \in DOMAIN ctx \ Range(keys) |-> ctx[k]]

\* CloudUploader.upload as backup_database sees it: nothing happens for a
\* disabled cloud config; otherwise the upload succeeds, raises
\* CloudUploadError, or raises an exception of the transport
UploadOutcomes == {"ok", "CloudUploadError", "ConnectionError"}

CloudUploadRaised(cloud, outcome) ==
    IF ~cloud.enabled \/ outcome = "ok" THEN NoExc
    ELSE Raise(outcome, "upload", "")

\* an except clause that discards the archive that could not be uploaded
AfterUploadDiscarding(dir, name, raised) ==
    IF raised = NoExc THEN dir ELSE {f \in dir : f.name # name}

\* lines 101-105: an upload, failed or not, leaves the backup directory,
\* the archive at `name` included, as it is
AfterUpload(dir, name, raised) == dir

\* lines 100-107
Upload ==
    /\ pc = "upload"
    /\ uploaded' = CloudContext(context, sensitive_keys)
    /\ \E outcome \in UploadOutcomes :
        LET raised == CloudUploadRaised(database.cloud, outcome) IN
        /\ exc' = raised
        /\ files' = AfterUpload(files, ArchiveFileName(database, Today), raised)
        /\ events' = Append(events, Event("upload", "", raised = NoExc))
    /\ pc' = "finally"
    /\ UNCHANGED <<only, index, dbnames, database, errors, result, tmp_dirs, context,
                   sensitive_keys, service_stopped, secrets, env, dump_seen, log, attempted,
                   files_before, retention_input, unlink_failed>>
    /\ UNCHANGED <<cloud_vars, text_vars, config_vars>>

\* ------------------------------------------------------- finally, restart
\* _restart_service line 270
RestartCommand(service) ==
    IF service.start_command # "" THEN service.start_command ELSE service.restart_command

\* a restart placed at the end of the try block instead of in finally
RestartWantedOnSuccess(stopped, raised) == stopped /\ raised = NoExc

\* line 109: whether the finally block calls _restart_service
RestartWanted(stopped, raised) == stopped

\* lines 108-110: the finally block; backup_database returns or raises
Finally ==
    /\ pc = "finally"
    /\ IF RestartWanted(service_stopped, exc) /\ RestartCommand(database.service) # ""
       THEN \E outcome \in CommandOutcomes :
            LET command == RestartCommand(database.service)
                raised == RunCommand(command, outcome) IN
            /\ events' = Append(events, Event("restart", command, outcome = "ok"))
            /\ exc' = IF raised = NoExc THEN exc ELSE RaiseDuring(exc, raised)
       ELSE UNCHANGED <<events, exc>>
    /\ pc' = "returned"
    /\ UNCHANGED <<only, index, dbnames, database, errors, result, files, tmp_dirs,
                   context, sensitive_keys, service_stopped, secrets, env, dump_seen,
                   log, attempted,
                   files_before, retention_input, unlink_failed, uploaded>>
    /\ UNCHANGED <<cloud_vars, text_vars, config_vars>>

\* ----------------------------------------------------------------- run_all
\* `except BackupError` in place of `except Exception`
CatchesBackupError(e) == e.type = "BackupError"

\* line 62: `except Exception` catches every exception of the pipeline
Catches(e) == TRUE

\* str(exc): the message of the exception itself, not of its __context__
StrExc(e) == <<e.msg>>

\* line 64: f"{database.name}: {exc}"
ErrorEntry(db, e) == [name |-> db.name, reason |-> StrExc(e)]

\* every exception the pipeline raised, the propagating one first
AllRaised(e) == IF e = NoExc THEN <<>> ELSE <<e.msg>> \o e.context

\* the frame of backup_database is gone once run_all has its outcome
LeaveBackupDatabase ==
    /\ database' = NoDatabase
    /\ context' = EmptyContext
    /\ sensitive_keys' = <<>>
    /\ service_stopped' = FALSE
    /\ exc' = NoExc
    /\ secrets' = <<>>
    /\ env' = {}
    /\ dump_seen' = "none"
    /\ log' = <<>>
    /\ events' = <<>>
    /\ files_before' = files
    /\ retention_input' = {}
    /\ unlink_failed' = {}
    /\ uploaded' = EmptyContext

\* lines 60-64: backup_database has returned or raised
RunAllCatch ==
    /\ pc = "returned"
    /\ attempted' = Append(attempted, [index |-> index, failed |-> exc # NoExc])
    /\ LeaveBackupDatabase
    /\ IF exc = NoExc
       THEN /\ pc' = "loop"
            /\ UNCHANGED <<errors, result>>
       ELSE IF Catches(exc)
       THEN /\ errors' = Append(errors, ErrorEntry(database, exc))
            /\ pc' = "loop"
            /\ UNCHANGED result
       ELSE /\ result' = exc.type
            /\ pc' = "done"
            /\ UNCHANGED errors
    /\ UNCHANGED <<only, index, dbnames, files, tmp_dirs>>
    /\ UNCHANGED <<cloud_vars, text_vars, config_vars>>

\* lines 65-66: the list is exhausted
RunAllFinish ==
    /\ pc = "loop"
    /\ result' = IF errors # <<>> THEN "BackupError" ELSE "ok"
    /\ pc' = "done"
    /\ UNCHANGED <<only, index, dbnames, database, errors, files, tmp_dirs, context,
                   sensitive_keys, service_stopped, exc, secrets, env, dump_seen, log, events,
                   attempted, files_before, retention_input, unlink_failed, uploaded>>
    /\ UNCHANGED <<cloud_vars, text_vars, config_vars>>

Next ==
    \/ RunAllNext
    \/ StopService
    \/ BackupFileDatabase
    \/ BackupSqlPrepare
    \/ BackupSqlDump
    \/ EnforceRetention
    \/ Upload
    \/ Finally
    \/ RunAllCatch
    \/ RunAllFinish

Spec == Init /\ [][Next]_vars

\* ------------------------------------------------------------ properties
Done == pc = "done"

Returned == pc = "returned"

\* the names an unfiltered or filtered run_all is to process
Selected(i) ==
    only = {} \/ \E n \in only : Lower(n) = Lower(dbnames[i])

FailedAttempts == SelectSeq(attempted, LAMBDA a : a.failed)

EventsOf(op) == SelectSeq(events, LAMBDA e : e.op = op)

Happened(op) == EventsOf(op) # <<>>

FailedAt(op) == \E i \in 1..Len(events) : events[i].op = op /\ ~events[i].ok

\* C1: when run_all ends, every selected database was handed to
\* backup_database exactly once and no other was, the run raises BackupError
\* if and only if some database failed, and errors holds one entry per
\* failed database, under its name and in order, and none for the others.
C1_RunAllIsolatesFailures ==
    Done =>
        /\ \A i \in 1..index :
            Cardinality({k \in 1..Len(attempted) : attempted[k].index = i})
                = IF Selected(i) THEN 1 ELSE 0
        /\ result \in {"ok", "BackupError"}
        /\ (result = "BackupError") <=> (FailedAttempts # <<>>)
        /\ Len(errors) = Len(FailedAttempts)
        /\ \A j \in 1..Len(errors) :
            /\ errors[j].name = dbnames[FailedAttempts[j].index]
            /\ errors[j].reason # <<>>

C1_Witness ==
    /\ Done
    /\ Len(attempted) = 2
    /\ attempted[1].failed
    /\ ~attempted[2].failed
    /\ result = "BackupError"
    /\ Len(errors) = 1

\* C2: when backup_database returns or raises for a database with a start
\* or restart command, that command (start if set, else restart) has run
\* exactly once if the stop command ran and exited 0, and not at all
\* otherwise; without a stop command no start or restart command runs.
C2_RestartIffStopped ==
    (Returned /\ RestartCommand(database.service) # "") =>
        LET stopped == \E i \in 1..Len(events) : events[i].op = "stop" /\ events[i].ok
            restarts == EventsOf("restart")
        IN /\ Len(EventsOf("stop")) <= 1
           /\ Len(restarts) = IF stopped THEN 1 ELSE 0
           /\ \A i \in 1..Len(restarts) :
                restarts[i].cmd = IF database.service.start_command # ""
                                  THEN database.service.start_command
                                  ELSE database.service.restart_command
           /\ database.service.stop_command = "" => restarts = <<>>

C2_Witness ==
    /\ Returned
    /\ database.service.start_command = ""
    /\ exc # NoExc
    /\ exc.msg[1] = "source_not_found"
    /\ Happened("restart")
    /\ EventsOf("restart")[1].cmd = "restart"

\* C3: a stop command that exits nonzero or times out makes backup_database
\* fail with nothing else done: no dump, no archive, no retention, no
\* upload, no start or restart command, and the backup directory unchanged.
C3_StopFailureAborts ==
    (pc \in {"finally", "returned"} /\ FailedAt("stop")) =>
        /\ exc.type = "BackupError"
        /\ Len(events) = 1
        /\ files = files_before
        /\ tmp_dirs = {}
        /\ uploaded = EmptyContext

C3_Witness ==
    /\ Returned
    /\ FailedAt("stop")
    /\ exc.msg = <<"timeout", "stop">>
    /\ database.service.start_command # ""
    /\ database.type = "sql"

\* C4: when an earlier stage has raised and the restart command then fails
\* too, the entry run_all appends to errors for that database shows both
\* failures: every exception the pipeline raised is in the entry's reason.
C4_BothFailuresSurface ==
    [][(pc = "returned" /\ exc # NoExc /\ pc' = "loop") =>
        /\ Len(errors') = Len(errors) + 1
        /\ \A m \in Range(AllRaised(exc)) :
            m \in Range(errors'[Len(errors')].reason)]_vars

\* C5: the stages of one database run in the order stop, archive
\* production (the dump command, then the archive), retention, upload,
\* restart, each at most once, and after a failed archive production or a
\* failed upload nothing but the restart runs: no retention, no upload.
StageRank(op) ==
    CASE op = "stop" -> 1 [] op = "dump" -> 2 [] op = "archive" -> 3
      [] op = "retention" -> 4 [] op = "upload" -> 5 [] op = "restart" -> 6

C5_StageOrder ==
    /\ \A i, j \in 1..Len(events) :
        i < j => StageRank(events[i].op) < StageRank(events[j].op)
    /\ \A i, j \in 1..Len(events) :
        (i < j /\ events[i].op \in {"archive", "upload"} /\ ~events[i].ok)
            => events[j].op = "restart"
    /\ \A i, j \in 1..Len(events) :
        (i < j /\ events[i].op = "dump" /\ ~events[i].ok)
            => \/ events[j].op = "restart"
               \/ events[j].op = "archive" /\ ~events[j].ok
    /\ FailedAt("archive") => ~Happened("retention") /\ ~Happened("upload")

C5_Witness ==
    /\ Returned
    /\ FailedAt("archive")
    /\ Happened("stop")
    /\ events[Len(events)].op = "restart"

\* the retention rule as the specification words it
Expired(f) ==
    /\ database.retention_days > 0
    /\ EndsWith(f.name, ZipSuffix)
    /\ f.is_file
    /\ StartsWith(f.name, SafeName(database) \o <<"_">>)
    /\ f.mtime < Today - database.retention_days

\* C6 as stated: retention deletes a file of the backup directory if and
\* only if retention_days > 0 and the file is an archive with this
\* database's prefix older than the cutoff.
C6_DeletesExactlyExpired ==
    Happened("retention") =>
        \A f \in retention_input : (f \notin files) <=> Expired(f)

\* C6 amended: retention deletes only archives with this database's prefix
\* older than the cutoff, and only for retention_days > 0; it deletes every
\* such archive whose unlink does not fail; every other file stays, nothing
\* is added, and with retention_days = 0 nothing is deleted.
C6_DeletesOnlyExpired ==
    Happened("retention") =>
        /\ files \subseteq retention_input
        /\ \A f \in retention_input :
            /\ f \notin files => Expired(f)
            /\ (Expired(f) /\ f \notin unlink_failed) => f \notin files
            /\ f \in unlink_failed => f \in files
        /\ database.retention_days = 0 => files = retention_input

C6_Witness ==
    /\ pc = "upload"
    /\ \E f \in retention_input : f \notin files
    /\ \E f \in files : Expired(f)
    /\ \E f \in files :
        /\ IsArchive(f)
        /\ f.mtime < Today - database.retention_days
        /\ ~StartsWith(f.name, SafeName(database) \o <<"_">>)
    /\ \E f \in files : IsArchive(f) /\ f.mtime = Today - database.retention_days

\* C7: an unlink that fails during retention is not fatal: the other
\* expired archives are still deleted, the upload stage still runs, and
\* backup_database fails if and only if some stage other than the unlinks
\* failed; no other failure is swallowed.
C7_UnlinkFailureNotFatal ==
    /\ unlink_failed # {} =>
        /\ \A f \in retention_input : (Expired(f) /\ f \notin unlink_failed) => f \notin files
        /\ pc \in {"upload", "finally", "returned"}
        /\ Returned => Happened("upload")
    /\ Returned => ((exc # NoExc) <=> \E i \in 1..Len(events) : ~events[i].ok)

C7_Witness ==
    /\ Returned
    /\ unlink_failed # {}
    /\ \E f \in retention_input : f \notin files
    /\ Happened("upload")
    /\ exc = NoExc

SecretValues == {SecretStore[n] : n \in DOMAIN SecretStore}

\* C8: the context handed to CloudUploader.upload has neither the key
\* sql_login nor the key sql_password, and none of its values is a value of
\* the secret store.
C8_CloudContextSecretFree ==
    Happened("upload") =>
        /\ "sql_login" \notin DOMAIN uploaded
        /\ "sql_password" \notin DOMAIN uploaded
        /\ \A k \in DOMAIN uploaded : uploaded[k] \notin SecretValues
        /\ \A k \in DOMAIN context :
            k \notin {"sql_login", "sql_password"} =>
                k \in DOMAIN uploaded /\ uploaded[k] = context[k]

C8_Witness ==
    /\ Happened("upload")
    /\ database.cloud.enabled
    /\ "sql_login" \in DOMAIN context
    /\ "sql_password" \in DOMAIN context
    /\ context["sql_password"] \in SecretValues
    /\ env # {}

\* C9: a failed upload makes backup_database fail, and the archive written
\* by this run of the pipeline is still in the backup directory.
C9_UploadFailureKeepsArchive ==
    (pc \in {"finally", "returned"} /\ FailedAt("upload")) =>
        /\ exc # NoExc
        /\ File(ArchiveFileName(database, Today), Today, TRUE) \in files
        /\ files \ files_before \subseteq {File(ArchiveFileName(database, Today), Today, TRUE)}

C9_Witness ==
    /\ Returned
    /\ FailedAt("upload")
    /\ exc.type = "CloudUploadError"
    /\ database.retention_days > 0
    /\ files # files_before

\* C10: outside _backup_sql_database no temporary dump directory exists,
\* whichever way the function was left.
C10_TempDirRemoved ==
    pc # "sql_dump" => tmp_dirs = {}

C10_Witness ==
    /\ pc = "finally"
    /\ database.type = "sql"
    /\ exc.msg[1] \in {"dump_exit", "no_dump_files", "template_missing_key", "zip"}
    /\ tmp_dirs = {}

\* ------------------------------------------------- properties, SQL path
ArchiveAtPath == \E f \in files : f.name = ArchiveFileName(database, Today)

ZipFailed == \E i \in 1..Len(AllRaised(exc)) : AllRaised(exc)[i][1] = "zip"

Contains(s, sub) == \E i \in 0..(Len(s) - Len(sub)) : SubSeq(s, i + 1, i + Len(sub)) = sub

\* the secret names a SQLConfig refers to, in the order they are looked up
ReferencedSecrets(sql) ==
    (IF sql.login_secret # "" THEN <<sql.login_secret>> ELSE <<>>)
    \o (IF sql.password_secret # "" THEN <<sql.password_secret>> ELSE <<>>)
    \o [i \in 1..Len(sql.env_from_secrets) |-> sql.env_from_secrets[i].secret]

MissingSecrets(sql) == SelectSeq(ReferencedSecrets(sql), LAMBDA n : ~HasSecret(n))

\* C11 as stated: once the dump command of a SQL database has run, an
\* archive is at the archive path if and only if the command exited 0 and
\* left a regular file, and a nonzero exit or an empty temporary area raises
\* BackupError with no archive at the archive path.
C11_ArchiveIffDumpProduced ==
    dump_seen # "none" =>
        /\ ArchiveAtPath <=> dump_seen = "files"
        /\ dump_seen \in {"nonzero", "empty"} => exc.type = "BackupError"

\* C11 amended: a SQL database's archive stage writes to the backup
\* directory only if the dump command exited 0 and left a regular file, and
\* then the archive is at the archive path unless writing the zip raised;
\* a nonzero exit or an empty temporary area raises BackupError and leaves
\* the backup directory as it was.
C11_ArchiveOnlyIfDumpProduced ==
    /\ (database.type = "sql" /\ pc \in {"finally", "returned"} /\ dump_seen # "files")
            => files = files_before
    /\ dump_seen \in {"nonzero", "empty"} =>
            /\ pc \in {"finally", "returned"}
            /\ exc.type = "BackupError"
            /\ FailedAt("archive")
    /\ dump_seen = "files" => (ArchiveAtPath \/ ZipFailed)

C11_Witness ==
    /\ pc = "finally"
    /\ dump_seen = "empty"
    /\ Happened("dump")
    /\ exc = Raise("BackupError", "no_dump_files", "")
    /\ files = files_before

C13_LogFreeOfSecrets ==
    \A i \in 1..Len(log), j \in 1..Len(secrets) :
        secrets[j] # <<>> => ~Contains(log[i].text, secrets[j])

\* C21: a dump command template that references a key absent from the
\* context is never rendered into a command: render_template raises
\* KeyError naming the first missing key, nothing is run or logged, no
\* archive is written, and the error is the one backup_database leaves
\* the archive stage with.
C21_MissingKeyFails ==
    (database.type = "sql" /\ MissingKeys(database.sql.dump_command, context) # <<>>) =>
        LET rendered == render_template(database.sql.dump_command, context) IN
        /\ ~rendered.ok
        /\ rendered.missing = Head(MissingKeys(database.sql.dump_command, context)).v
        /\ ~Happened("dump")
        /\ dump_seen = "none"
        /\ log = <<>>
        /\ files = files_before
        /\ pc \notin {"retention", "upload"}
        /\ (pc = "finally" /\ MissingSecrets(database.sql) = <<>> /\ ~FailedAt("stop")) =>
                exc = Raise("KeyError", "template_missing_key", rendered.missing)

C21_Witness ==
    /\ pc = "finally"
    /\ database.sql.dump_command = TplCred
    /\ "sql_login" \in DOMAIN context
    /\ "sql_dump_file" \in DOMAIN context
    /\ "sql_password" \notin DOMAIN context
    /\ exc = Raise("KeyError", "template_missing_key", "sql_password")
    /\ Happened("archive")
    /\ ~Happened("dump")

\* backup_database is at work on the database of the current iteration
InPipeline == pc \notin {"loop", "done"}

\* C26: under a non-empty name filter backup_database is called for the
\* databases whose lower-cased name is a lower-cased filter entry and for
\* no other, one after the other in the order of the configuration: a
\* call begins only when every earlier call has returned, and between
\* calls, a skipped database included, no command has run and the backup
\* directory is as the last call left it.
C26_FilterSelects ==
    only # {} =>
        LET finished == IF InPipeline THEN index - 1 ELSE index IN
        /\ \A k \in 1..Len(attempted) : Selected(attempted[k].index)
        /\ \A k \in 1..(Len(attempted) - 1) : attempted[k].index < attempted[k + 1].index
        /\ \A i \in 1..finished :
            Selected(i) <=> \E k \in 1..Len(attempted) : attempted[k].index = i
        /\ InPipeline =>
            /\ Selected(index)
            /\ database.name = dbnames[index]
            /\ \A k \in 1..Len(attempted) : attempted[k].index < index
        /\ ~InPipeline =>
            /\ database = NoDatabase
            /\ events = <<>>
            /\ uploaded = EmptyContext
            /\ files = files_before

C26_Witness ==
    /\ only = {<<"D", "B">>}
    /\ Done
    /\ dbnames = <<NameDb2, NameDb>>
    /\ Len(attempted) = 1
    /\ attempted[1].index = 2
    /\ ArchiveName(<<"d", "b">>, Today) \in {f.name : f \in files}
    /\ \A f \in files : ~StartsWith(f.name, <<"d", "b", "_", "2", "_">>)

\* ------------------------------------------- a shared backup directory
\* The backup directory after earlier runs for two databases that share
\* it, 'db' and 'db 2': each has an archive three days old and one two
\* days old.
SharedFiles ==
    {File(ArchiveName(slugify(name), day), day, TRUE) :
        name \in {NameDb, NameDb2}, day \in {Today - 3, Today - 2}}

\* run_all for the databases named 'db', over the shared directory
InitShared ==
    /\ pc = "loop"
    /\ only = {<<"D", "B">>}
    /\ index = 0
    /\ dbnames = <<>>
    /\ database = NoDatabase
    /\ errors = <<>>
    /\ result = "running"
    /\ files = SharedFiles
    /\ tmp_dirs = {}
    /\ context = EmptyContext
    /\ sensitive_keys = <<>>
    /\ service_stopped = FALSE
    /\ exc = NoExc
    /\ secrets = <<>>
    /\ env = {}
    /\ dump_seen = "none"
    /\ log = <<>>
    /\ events = <<>>
    /\ attempted = <<>>
    /\ files_before = SharedFiles
    /\ retention_input = {}
    /\ unlink_failed = {}
    /\ uploaded = EmptyContext
    /\ NoUploadCall
    /\ NoFunctionCall
    /\ NoConfigCall

SpecShared == InitShared /\ [][Next]_vars

\* the file is an archive backup_database writes for the database
ProducedFor(f, db) == \E day \in 0..Today : f.name = ArchiveFileName(db, day)

\* C27: a file that retention deletes for one database is not an archive
\* of another database whose safe name is different, also when the two
\* share the backup directory and one safe name followed by '_' begins
\* the other.
C27_OtherArchivesKept ==
    Happened("retention") =>
        \A f \in retention_input \ files :
            \A other \in DatabaseConfigs :
                SafeName(other) # SafeName(database) => ~ProducedFor(f, other)

\* ======================================================= cloud upload
\* (provider or "").lower()
LowerProvider(p) == IF p = "Yandex" THEN "yandex" ELSE p

YandexProviders == {"yandex", "yandex_disk", "yandex-disk"}

Providers == {"yandex", "Yandex", "s3", ""}

\* a template without placeholders
Text(chars) == [i \in 1..Len(chars) |-> Lit(chars[i])]

\* remote_path: not configured, "/", "/a", "a/{safe_name}", "a//b/",
\* "{sql_login}"
RemotePathTemplates ==
    {<<>>, Text(<<"/">>), Text(<<"/", "a">>),
     <<Lit("a"), Lit("/"), Var("safe_name")>>,
     Text(<<"a", "/", "/", "b", "/">>),
     <<Var("sql_login")>>}

\* token, login and password secret references: none, each way of giving
\* some, and one the store does not hold
Credentials ==
    {<<"", "", "">>, <<"ya_token", "", "">>, <<"", "ya_login", "ya_pass">>,
     <<"ya_token", "ya_login", "ya_pass">>, <<"", "ya_login", "">>,
     <<"gone", "ya_login", "ya_pass">>}

CloudConfigs ==
    {CloudConfig(e, p, r, c[1], c[2], c[3]) :
        e \in BOOLEAN, p \in Providers, r \in RemotePathTemplates, c \in Credentials}

\* the context backup_database hands over for the database "db", and an
\* empty one
UploadContext ==
    BaseContext(Database(NameDb, "file", SourcePath, <<>>, 3, Cloud(TRUE),
                         Service("", "", ""), NoSql), Today)

CloudContexts == {EmptyContext, UploadContext}

\* file_path.name
UploadFileName == <<"f", ".", "z", "i", "p">>

\* a resource of the server: a directory (collection) or a file
Entry(path, is_dir) == [path |-> path, is_dir |-> is_dir]

\* what the server holds before the call: nothing, the directory /a, the
\* directories /a and /a/db, or a file named /a
InitialRemotes ==
    {{}, {Entry(<<"/", "a">>, TRUE)},
     {Entry(<<"/", "a">>, TRUE), Entry(<<"/", "a", "/", "d", "b">>, TRUE)},
     {Entry(<<"/", "a">>, FALSE)}}

\* normalize_remote_directory
normalize_remote_directory(path) ==
    LET stripped == Strip(path, Whitespace) IN
    IF stripped \in {<<>>, <<"/">>} THEN <<"/">>
    ELSE <<"/">> \o Strip(stripped, {"/"})

\* join_remote
join_remote(directory, filename) ==
    LET dir == normalize_remote_directory(directory) IN
    IF dir = <<"/">> THEN <<"/">> \o filename ELSE dir \o <<"/">> \o filename

\* str.split("/")
RECURSIVE Split(_)
Split(chars) ==
    IF "/" \notin Range(chars) THEN <<chars>>
    ELSE LET i == CHOOSE k \in 1..Len(chars) :
                    chars[k] = "/" /\ \A j \in 1..(k - 1) : chars[j] # "/"
         IN <<SubSeq(chars, 1, i - 1)>> \o Split(SubSeq(chars, i + 1, Len(chars)))

\* ensure_remote_directory lines 116-118: the segments the walk visits
Segments(directory) ==
    IF directory \in {<<>>, <<"/">>} THEN <<>>
    ELSE SelectSeq(Split(Strip(directory, {"/"})), LAMBDA segment : segment # <<>>)

\* _headers
Headers(u) ==
    IF u.token # <<>>
    THEN ("Authorization" :> (<<"O", "A", "u", "t", "h", " ">> \o u.token))
    ELSE [k \in {} |-> <<>>]

\* an _auth that forgets the token
AuthIgnoringToken(u) ==
    IF u.login # <<>> /\ u.password # <<>> THEN <<u.login, u.password>> ELSE <<>>

\* _auth: the (login, password) pair, or <<>> for None
Auth(u) ==
    IF u.login # <<>> /\ u.password # <<>> /\ u.token = <<>>
    THEN <<u.login, u.password>>
    ELSE <<>>

Request(method, path, headers, auth, status) ==
    [method |-> method, path |-> path, headers |-> headers, auth |-> auth,
     status |-> status]

\* CloudUploader._get_secret: None for no name, the value, or
\* CloudUploadError for a name the store does not hold
CloudSecret(name) == IF name = "" THEN <<>> ELSE get_secret(name)

CloudSecretRaised(name) ==
    IF name = "" \/ HasSecret(name) THEN NoExc
    ELSE Raise("CloudUploadError", "secret_not_found", name)

\* lines 42-44: the names get_secret is called with, up to the first one
\* the store does not hold
RECURSIVE LookedUp(_)
LookedUp(names) ==
    IF names = <<>> THEN <<>>
    ELSE IF Head(names) = "" THEN LookedUp(Tail(names))
    ELSE IF HasSecret(Head(names)) THEN <<Head(names)>> \o LookedUp(Tail(names))
    ELSE <<Head(names)>>

SecretNames(cfg) == <<cfg.token_secret, cfg.login_secret, cfg.password_secret>>

\* a guard that lets a disabled config with a provider through
UploadIsNoopWithoutProvider(cfg) == ~cfg.enabled /\ cfg.provider = ""

\* lines 35-36
UploadIsNoop(cfg) == ~cfg.enabled

\* the call ends by raising e
UploadRaises(e) ==
    /\ upload_exc' = e
    /\ upload_pc' = "returned"

\* CloudUploader.upload lines 35-50 with YandexDiskUploader.upload lines
\* 81-84: everything up to the first request
CloudUpload ==
    /\ upload_pc = "call"
    /\ IF UploadIsNoop(cloud_config)
       THEN /\ upload_pc' = "returned"
            /\ UNCHANGED <<upload_exc, uploader, normalized_dir, segments, lookups,
                           renders>>
       ELSE IF LowerProvider(cloud_config.provider) \in YandexProviders
       THEN LET template == IF cloud_config.remote_path # <<>>
                            THEN cloud_config.remote_path ELSE Text(<<"/">>)
                rendered == render_template(template, cloud_context)
                remote_path == IF rendered.value # <<>> THEN rendered.value ELSE <<"/">>
                looked == LookedUp(SecretNames(cloud_config))
                missing == looked # <<>> /\ ~HasSecret(looked[Len(looked)])
                dir == normalize_remote_directory(remote_path)
            IN /\ renders' = Append(renders, template)
               /\ IF ~rendered.ok
                  THEN /\ UploadRaises(Raise("KeyError", "template_missing_key",
                                             rendered.missing))
                       /\ UNCHANGED <<uploader, normalized_dir, segments, lookups>>
                  ELSE /\ lookups' = lookups \o looked
                       /\ IF missing
                          THEN /\ UploadRaises(CloudSecretRaised(looked[Len(looked)]))
                               /\ UNCHANGED <<uploader, normalized_dir, segments>>
                          ELSE /\ uploader' = Uploader(CloudSecret(cloud_config.token_secret),
                                                       CloudSecret(cloud_config.login_secret),
                                                       CloudSecret(cloud_config.password_secret))
                               /\ IF ~file_exists
                                  THEN /\ UploadRaises(Raise("CloudUploadError",
                                                             "file_not_found", ""))
                                       /\ UNCHANGED <<normalized_dir, segments>>
                                  ELSE /\ normalized_dir' = dir
                                       /\ segments' = Segments(dir)
                                       /\ upload_pc' = IF Segments(dir) = <<>>
                                                       THEN "put" ELSE "mkcol"
                                       /\ UNCHANGED upload_exc
       ELSE /\ UploadRaises(IF LowerProvider(cloud_config.provider) # ""
                            THEN Raise("CloudUploadError", "unsupported",
                                       LowerProvider(cloud_config.provider))
                            ELSE Raise("CloudUploadError", "no_provider", ""))
            /\ UNCHANGED <<uploader, normalized_dir, segments, lookups, renders>>
    /\ UNCHANGED <<cloud_config, cloud_context, file_exists, current, remote, requests>>
    /\ UNCHANGED <<backup_vars, text_vars, config_vars>>

\* the directory a path lies in; <<>> is the root
Parent(path) ==
    LET i == CHOOSE k \in 1..Len(path) :
                path[k] = "/" /\ \A j \in (k + 1)..Len(path) : path[j] # "/"
    IN SubSeq(path, 1, i - 1)

ParentExists(entries, path) ==
    Parent(path) = <<>> \/ Entry(Parent(path), TRUE) \in entries

\* The status the server answers MKCOL with; 0 stands for no answer (the
\* request raises ConnectionError).  409 is the answer exactly when the
\* parent directory is absent; a path that is taken is answered 405, or 301
\* if a directory has it; otherwise the directory is created (201) or the
\* server fails (500) and creates nothing.
MkcolStatuses(entries, path) ==
    IF ~ParentExists(entries, path) THEN {409, 0}
    ELSE IF Entry(path, TRUE) \in entries THEN {405, 301, 0}
    ELSE IF Entry(path, FALSE) \in entries THEN {405, 0}
    ELSE {201, 500, 0}

\* a walk that takes 409 for a failure
NonFatalStatusesWithout409 == {200, 201, 301, 405}

\* lines 128-132: the statuses after which the walk continues
NonFatalStatuses == {200, 201, 301, 405, 409}

\* ensure_remote_directory lines 120-135: one iteration of the loop
Mkcol ==
    /\ upload_pc = "mkcol"
    /\ LET path == current \o <<"/">> \o Head(segments) IN
        \E status \in MkcolStatuses(remote, path) :
            /\ current' = path
            /\ requests' = Append(requests, Request("MKCOL", path, Headers(uploader),
                                                    Auth(uploader), status))
            /\ remote' = IF status = 201 THEN remote \cup {Entry(path, TRUE)} ELSE remote
            /\ IF status = 0
               THEN /\ UploadRaises(Raise("ConnectionError", "mkcol", path))
                    /\ UNCHANGED segments
               ELSE IF status \in NonFatalStatuses
               THEN /\ segments' = Tail(segments)
                    /\ upload_pc' = IF Tail(segments) = <<>> THEN "put" ELSE "mkcol"
                    /\ UNCHANGED upload_exc
               ELSE /\ UploadRaises(Raise("CloudUploadError", "mkcol", path))
                    /\ UNCHANGED segments
    /\ UNCHANGED <<cloud_config, cloud_context, file_exists, uploader, normalized_dir,
                   lookups, renders>>
    /\ UNCHANGED <<backup_vars, text_vars, config_vars>>

\* the statuses the server answers PUT with; 0 stands for no answer
PutStatuses == {201, 202, 405, 500, 0}

\* an upload that takes 405 for success, as the directory walk does
PutOkStatusesWith405 == {200, 201, 202, 204, 405}

\* line 94
PutOkStatuses == {200, 201, 202, 204}

\* YandexDiskUploader.upload lines 86-98
Put ==
    /\ upload_pc = "put"
    /\ \E status \in PutStatuses :
        /\ requests' = Append(requests,
                              Request("PUT", join_remote(normalized_dir, UploadFileName),
                                      Headers(uploader), Auth(uploader), status))
        /\ upload_exc' = IF status = 0 THEN Raise("ConnectionError", "put", "")
                         ELSE IF status \notin PutOkStatuses
                         THEN Raise("CloudUploadError", "put", "")
                         ELSE NoExc
    /\ upload_pc' = "returned"
    /\ UNCHANGED <<cloud_config, cloud_context, file_exists, uploader, normalized_dir,
                   segments, current, remote, lookups, renders>>
    /\ UNCHANGED <<backup_vars, text_vars, config_vars>>

InitUpload ==
    /\ InitBackup
    /\ only = {}
    /\ NoFunctionCall
    /\ NoConfigCall
    /\ upload_pc = "call"
    /\ cloud_config \in CloudConfigs
    /\ cloud_context \in CloudContexts
    /\ file_exists \in BOOLEAN
    /\ uploader = NoUploader
    /\ normalized_dir = <<>>
    /\ segments = <<>>
    /\ current = <<>>
    /\ remote \in InitialRemotes
    /\ upload_exc = NoExc
    /\ requests = <<>>
    /\ lookups = <<>>
    /\ renders = <<>>

NextUpload == CloudUpload \/ Mkcol \/ Put

SpecUpload == InitUpload /\ [][NextUpload]_vars

\* ------------------------------------------------ properties, cloud upload
RECURSIVE JoinSegments(_)
JoinSegments(segs) ==
    IF segs = <<>> THEN <<>> ELSE <<"/">> \o Head(segs) \o JoinSegments(Tail(segs))

\* the segments of the directory YandexDiskUploader.upload walks
WalkSegments == Segments(normalized_dir)

\* YandexDiskUploader.upload was called with a file that exists
UploadEntered == normalized_dir # <<>>

Mkcols == SelectSeq(requests, LAMBDA r : r.method = "MKCOL")

Puts == SelectSeq(requests, LAMBDA r : r.method = "PUT")

\* ensure_remote_directory has returned without raising
WalkReturned == UploadEntered /\ (upload_pc = "put" \/ Puts # <<>>)

\* C14: the i-th request of the walk is the MKCOL of the first i segments;
\* after a status 200, 201, 301, 405 or 409 the walk goes on, any other
\* status raises CloudUploadError naming the path of that request and is
\* the last request of the call, and the walk returns only after one MKCOL
\* per segment.
C14_WalkOrder ==
    /\ \A i \in 1..Len(Mkcols) :
        /\ requests[i] = Mkcols[i]
        /\ i <= Len(WalkSegments)
        /\ Mkcols[i].path = JoinSegments(SubSeq(WalkSegments, 1, i))
        /\ Mkcols[i].status \in {200, 201, 301, 405, 409} =>
                (i < Len(requests) \/ upload_exc = NoExc)
        /\ Mkcols[i].status \notin {200, 201, 301, 405, 409, 0} =>
                /\ i = Len(requests)
                /\ upload_pc = "returned"
                /\ upload_exc = Raise("CloudUploadError", "mkcol", Mkcols[i].path)
    /\ WalkReturned => Len(Mkcols) = Len(WalkSegments)

C14_Witness ==
    /\ upload_pc = "returned"
    /\ Len(requests) = 2
    /\ requests[1].status = 201
    /\ requests[2].status = 500
    /\ upload_exc = Raise("CloudUploadError", "mkcol", <<"/", "a", "/", "d", "b">>)

\* C15: once ensure_remote_directory has returned without error, the server
\* holds a resource at the path of every segment of the target directory.
C15_SegmentsExist ==
    WalkReturned =>
        \A k \in 1..Len(WalkSegments) :
            \E e \in remote : e.path = JoinSegments(SubSeq(WalkSegments, 1, k))

\* C16: YandexDiskUploader.upload of an existing file returns without error
\* if and only if every MKCOL was answered with a non-fatal status and the
\* PUT with 200, 201, 202 or 204; another PUT status raises
\* CloudUploadError; the PUT is the one request after the completed walk.
C16_UploadSucceedsIff ==
    /\ (upload_pc = "returned" /\ UploadEntered) =>
        /\ (upload_exc = NoExc) <=>
                /\ \A i \in 1..Len(Mkcols) : Mkcols[i].status \in {200, 201, 301, 405, 409}
                /\ \E i \in 1..Len(Puts) : Puts[i].status \in {200, 201, 202, 204}
        /\ \A i \in 1..Len(Puts) :
                Puts[i].status \notin {200, 201, 202, 204, 0} =>
                    upload_exc.type = "CloudUploadError"
    /\ Len(Puts) <= 1
    /\ \A i \in 1..Len(requests) :
        requests[i].method = "PUT" =>
            /\ i = Len(WalkSegments) + 1
            /\ i = Len(requests)
            /\ \A j \in 1..(i - 1) :
                /\ requests[j].method = "MKCOL"
                /\ requests[j].status \in {200, 201, 301, 405, 409}

C16_Witness ==
    /\ upload_pc = "returned"
    /\ upload_exc = NoExc
    /\ Len(Mkcols) = 2
    /\ Len(Puts) = 1
    /\ Puts[1].status = 202
    /\ Puts[1].path = <<"/", "a", "/", "d", "b", "/">> \o UploadFileName

\* C17: with a token configured every request carries the token's
\* Authorization header and no basic-auth pair; a basic-auth pair is sent
\* only when login and password are configured and no token is, and then
\* with every request.
C17_TokenPrecedence ==
    \A i \in 1..Len(requests) :
        LET r == requests[i]
            basic == /\ cloud_config.token_secret = ""
                     /\ cloud_config.login_secret # ""
                     /\ cloud_config.password_secret # ""
        IN /\ cloud_config.token_secret # "" =>
                /\ r.headers = ("Authorization" :>
                        (<<"O", "A", "u", "t", "h", " ">> \o get_secret(cloud_config.token_secret)))
                /\ r.auth = <<>>
           /\ cloud_config.token_secret = "" => DOMAIN r.headers = {}
           /\ r.auth # <<>> <=> basic
           /\ basic => r.auth = <<get_secret(cloud_config.login_secret),
                                  get_secret(cloud_config.password_secret)>>

C17_Witness ==
    /\ cloud_config.token_secret = "ya_token"
    /\ cloud_config.login_secret = "ya_login"
    /\ cloud_config.password_secret = "ya_pass"
    /\ Len(Mkcols) = 1
    /\ Len(Puts) = 1
    /\ \A i \in 1..2 : requests[i].auth = <<>> /\ DOMAIN requests[i].headers = {"Authorization"}

\* C18: a call of CloudUploader.upload with a disabled config returns
\* having looked up no secret, rendered no template, sent no request and
\* raised nothing, whatever the provider, the other fields and the context.
C18_DisabledIsNoop ==
    ~cloud_config.enabled =>
        /\ upload_pc \in {"idle", "call", "returned"}
        /\ lookups = <<>>
        /\ renders = <<>>
        /\ requests = <<>>
        /\ upload_exc = NoExc
        /\ uploader = NoUploader

C18_Witness ==
    /\ upload_pc = "returned"
    /\ ~cloud_config.enabled
    /\ cloud_config.provider = "s3"
    /\ cloud_config.token_secret = "gone"
    /\ cloud_config.remote_path = <<Var("sql_login")>>
    /\ cloud_context = EmptyContext
    /\ ~file_exists

\* ================================================== functions on text
\* the strings of at most n characters over an alphabet
Strings(alphabet, n) == UNION {[1..k -> alphabet] : k \in 0..n}

\* the sequences of at most n elements of a set
Lists(elements, n) == UNION {[1..k -> elements] : k \in 0..n}

PathInputs == Strings({"/", "a", " "}, MaxPathLen)

MaskInputs ==
    Strings({"a", "*"}, MaxTextLen)
        \X Lists(Strings({"a", "*"}, MaxSecretLen), MaxSecrets)

InitText ==
    /\ InitBackup
    /\ only = {}
    /\ NoUploadCall
    /\ NoConfigCall
    /\ fn \in {"normalize_remote_directory", "mask_sensitive"}
    /\ fn_input \in IF fn = "mask_sensitive" THEN MaskInputs ELSE PathInputs
    /\ fn_output = <<>>
    /\ fn_done = FALSE

\* normalize_remote_directory(path), and the function applied to its result
Normalize ==
    /\ fn = "normalize_remote_directory"
    /\ ~fn_done
    /\ fn_output' = <<normalize_remote_directory(fn_input),
                      normalize_remote_directory(normalize_remote_directory(fn_input))>>
    /\ fn_done' = TRUE
    /\ UNCHANGED <<fn, fn_input, backup_vars, cloud_vars, config_vars>>

\* mask_sensitive(text, secrets), and the function applied to its result
Mask ==
    /\ fn = "mask_sensitive"
    /\ ~fn_done
    /\ fn_output' = <<mask_sensitive(fn_input[1], fn_input[2]),
                      mask_sensitive(mask_sensitive(fn_input[1], fn_input[2]),
                                     fn_input[2])>>
    /\ fn_done' = TRUE
    /\ UNCHANGED <<fn, fn_input, backup_vars, cloud_vars, config_vars>>

NextText == Normalize \/ Mask

SpecText == InitText /\ [][NextText]_vars

\* ------------------------------------------------- properties, text
\* C19: the result of normalize_remote_directory starts with "/", ends with
\* "/" only if it is "/", has no two "/" in a row, and is left as it is by
\* a second application.
C19_NormalizedForm ==
    (fn = "normalize_remote_directory" /\ fn_done) =>
        LET out == fn_output[1] IN
        /\ out # <<>>
        /\ Head(out) = "/"
        /\ out # <<"/">> => out[Len(out)] # "/"
        /\ ~Contains(out, <<"/", "/">>)
        /\ fn_output[2] = out

\* C20: masking a masked text changes nothing, and the masked text contains
\* no non-empty secret value of the list.
C20_MaskIdempotent ==
    (fn = "mask_sensitive" /\ fn_done) =>
        /\ fn_output[2] = fn_output[1]
        /\ \A i \in 1..Len(fn_input[2]) :
            fn_input[2][i] # <<>> => ~Contains(fn_output[1], fn_input[2][i])

\* ===================================================== configuration
\* A scalar of the parsed YAML document: null, a string, an integer, a
\* boolean, or an empty mapping or list.
Null == [kind |-> "null", text |-> "", num |-> 0]

Str(s) == [kind |-> "str", text |-> s, num |-> 0]

Number(n) == [kind |-> "int", text |-> "", num |-> n]

Boolean(b) == [kind |-> "bool", text |-> "", num |-> IF b THEN 1 ELSE 0]

EmptyDict == [kind |-> "dict", text |-> "", num |-> 0]

EmptyList == [kind |-> "list", text |-> "", num |-> 0]

\* bool(value)
Truthy(v) ==
    CASE v.kind \in {"null", "dict", "list"} -> FALSE
      [] v.kind = "str" -> v.text # ""
      [] OTHER -> v.num # 0

\* a or b
Or(a, b) == IF Truthy(a) THEN a ELSE b

\* a mapping is a function from its keys to scalars
NoFields == [k \in {} |-> Null]

\* data.get(key)
Get(data, key) == IF key \in DOMAIN data THEN data[key] ELSE Null

\* data.get(key, default)
GetDefault(data, key, default) == IF key \in DOMAIN data THEN data[key] ELSE default

\* {key: value for key, value in data.items() if key not in known}
Extra(data, known) == [k \in DOMAIN data \ known |-> data[k]]

\* {key: value for key, value in result.items() if value not in dropped}
Cleaned(dict, dropped) ==
    [k \in {x \in DOMAIN dict : dict[x] \notin dropped} |-> dict[k]]

\* str.lower() of the names of the documents
LowerName(t) == IF t = "DB" THEN "db" ELSE t

\* _safe_int raises ConfigError for what int() rejects: a mapping, a
\* list, a text that is no numeral (the numerals here have one digit)
SafeIntRaises(value) ==
    \/ value.kind \in {"dict", "list"}
    \/ value.kind = "str" /\ value.text \notin Digits

safe_int(value, default) ==
    IF value = Null THEN default
    ELSE IF value.kind = "str"
    THEN Number(CHOOSE n \in 0..9 : DigitChar[n + 1] = value.text)
    ELSE Number(value.num)

\* a nested record of a database entry: absent, or a mapping
Absent == [present |-> FALSE, fields |-> NoFields]

Sub(fields) == [present |-> TRUE, fields |-> fields]

\* an entry of the 'databases' list: a mapping with its scalar fields and
\* its nested cloud, service and sql mappings, or null
Item(fields, cloud, service, sql) ==
    [mapping |-> TRUE, fields |-> fields, cloud |-> cloud, service |-> service, sql |-> sql]

NullItem ==
    [mapping |-> FALSE, fields |-> NoFields, cloud |-> Absent, service |-> Absent,
     sql |-> Absent]

\* ---- CloudConfig
CloudKeys ==
    {"enabled", "provider", "remote_path", "token_secret", "login_secret",
     "password_secret"}

CloudFromDict(data) ==
    [fields |-> [k \in CloudKeys |->
                    IF k = "enabled"
                    THEN Boolean(Truthy(GetDefault(data, "enabled", Boolean(FALSE))))
                    ELSE Get(data, k)],
     extra |-> Extra(data, CloudKeys)]

CloudToDict(cloud) == Cleaned(cloud.fields @@ cloud.extra, {Null})

\* ---- ServiceControl
TimeoutKeys == {"stop_timeout", "start_timeout"}

ServiceKeys == {"stop_command", "start_command", "restart_command"} \cup TimeoutKeys

ServiceFromDictRaises(data) == \E k \in TimeoutKeys : SafeIntRaises(Get(data, k))

ServiceFromDict(data) ==
    [fields |-> [k \in ServiceKeys |->
                    IF k \in TimeoutKeys THEN safe_int(Get(data, k), Null)
                    ELSE Get(data, k)]]

ServiceToDict(service) == Cleaned(service.fields, {Null})

\* ---- SQLConfig
SqlKeys ==
    {"dump_command", "working_directory", "dump_extension", "login_secret",
     "password_secret", "env_from_secrets"}

SqlFromDict(data) ==
    [fields |-> [k \in SqlKeys |->
                    CASE k = "dump_extension" -> GetDefault(data, k, Str(".dt"))
                      [] k = "env_from_secrets" -> GetDefault(data, k, EmptyDict)
                      [] OTHER -> Get(data, k)],
     extra |-> Extra(data, SqlKeys)]

SqlToDict(sql) == Cleaned(sql.fields @@ sql.extra, {Null, EmptyDict})

\* ---- DatabaseConfig
\* known_keys of from_dict, the nested cloud, service and sql apart
KnownKeys ==
    {"name", "type", "source", "backup_directory", "backup_dir", "backup_prefix",
     "retention_days"}

\* validate raises ConfigError
ValidateRaises(config) ==
    \/ ~Truthy(config.name)
    \/ config.type \notin {Str("file"), Str("sql")}
    \/ ~Truthy(config.backup_directory)
    \/ config.type = Str("file") /\ ~Truthy(config.source)
    \/ config.retention_days # Null /\ config.retention_days.num < 0
    \/ config.type = Str("sql") /\ ~Truthy(config.sql.fields["dump_command"])

Raised(type) == [raised |-> type, config |-> <<>>]

\* DatabaseConfig.from_dict: the DatabaseConfig, or the exception raised
from_dict(item) ==
    IF ~item.mapping THEN Raised("TypeError")
    ELSE IF "name" \notin DOMAIN item.fields THEN Raised("ConfigError")
    ELSE IF \/ SafeIntRaises(Get(item.fields, "retention_days"))
            \/ ServiceFromDictRaises(item.service.fields)
    THEN Raised("ConfigError")
    ELSE LET data == item.fields
             config ==
                [name |-> data["name"],
                 type |-> GetDefault(data, "type", Str("file")),
                 source |-> Get(data, "source"),
                 backup_directory |->
                    Or(Or(Get(data, "backup_directory"), Get(data, "backup_dir")),
                       Str("backups")),
                 backup_prefix |-> Get(data, "backup_prefix"),
                 retention_days |-> safe_int(Get(data, "retention_days"), Number(7)),
                 cloud |-> CloudFromDict(item.cloud.fields),
                 service |-> ServiceFromDict(item.service.fields),
                 sql |-> SqlFromDict(item.sql.fields),
                 extra |-> Extra(data, KnownKeys)] IN
         IF ValidateRaises(config) THEN Raised("ConfigError")
         ELSE [raised |-> "", config |-> <<config>>]

\* a to_dict that removes nothing
NoValues == {}

\* the values to_dict removes: value in (None, {}, [])
EmptyValues == {Null, EmptyDict, EmptyList}

\* a nested dict of to_dict: the empty one is removed
Nested(fields) == IF DOMAIN fields = {} THEN Absent ELSE Sub(fields)

\* DatabaseConfig.to_dict
to_dict(config) ==
    Item(Cleaned(("name" :> config.name) @@ ("type" :> config.type)
                 @@ ("source" :> config.source)
                 @@ ("backup_directory" :> config.backup_directory)
                 @@ ("backup_prefix" :> config.backup_prefix)
                 @@ ("retention_days" :> config.retention_days)
                 @@ config.extra,
                 EmptyValues),
         Nested(CloudToDict(config.cloud)),
         Nested(ServiceToDict(config.service)),
         Nested(SqlToDict(config.sql)))

\* ---- AppConfig, load_config, save_config
Document(databases) == [kind |-> "databases", databases |-> databases]

\* a mapping that has no list under 'databases'
OtherDocument == [kind |-> "other", databases |-> <<>>]

AppConfig(databases) == [raised |-> "", returned |-> TRUE, databases |-> databases]

Failed(type) == [raised |-> type, returned |-> FALSE, databases |-> <<>>]

\* load_config: the list comprehension of line 259 stops at the first
\* entry whose from_dict raises
load_config(doc) ==
    IF doc.kind = "empty" THEN AppConfig(<<>>)
    ELSE IF doc.kind = "other" THEN Failed("ConfigError")
    ELSE LET results == [i \in 1..Len(doc.databases) |-> from_dict(doc.databases[i])]
             bad == {i \in 1..Len(doc.databases) : results[i].raised # ""} IN
         IF bad = {}
         THEN AppConfig([i \in 1..Len(doc.databases) |-> results[i].config[1]])
         ELSE Failed(results[CHOOSE i \in bad : \A j \in bad : i <= j].raised)

\* AppConfig.to_dict, the document save_config dumps
AppConfigToDict(databases) ==
    Document([i \in 1..Len(databases) |-> to_dict(databases[i])])

\* AppConfig.add_database
add_database(databases, config) == Append(databases, config)

\* ---- the documents load_config is given
FileDb(name) == ("name" :> Str(name)) @@ ("source" :> Str("src"))

SqlDb(name) == ("name" :> Str(name)) @@ ("type" :> Str("sql"))

DumpCommand == "dump_command" :> Str("dump")

\* entries that pass validation
ValidItems ==
    {Item(FileDb(n), Absent, Absent, Absent) : n \in {"db", "DB", "x"}}
    \cup
    {Item(FileDb("db") @@ ("type" :> Str("file")) @@ ("backup_directory" :> Str("dir"))
            @@ ("backup_prefix" :> Str("bk")) @@ ("retention_days" :> Number(3)),
          Sub(("enabled" :> Boolean(TRUE)) @@ ("provider" :> Str("yandex"))
                @@ ("remote_path" :> Str("/r")) @@ ("token_secret" :> Str("t"))),
          Absent, Absent),
     Item(FileDb("x") @@ ("backup_dir" :> Str("dir")) @@ ("retention_days" :> Str("3")),
          Absent, Absent, Absent),
     Item(FileDb("x") @@ ("retention_days" :> Number(0)), Absent, Absent, Absent),
     Item(SqlDb("x") @@ ("source" :> Str("")), Absent,
          Sub(("stop_command" :> Str("stop")) @@ ("stop_timeout" :> Str("5"))),
          Sub(DumpCommand)),
     Item(SqlDb("x"), Absent, Absent, Sub(DumpCommand @@ ("dump_extension" :> Null))),
     Item(SqlDb("x"), Absent, Absent, Sub(DumpCommand @@ ("env_from_secrets" :> Null))),
     \* unknown fields
     Item(FileDb("x") @@ ("note" :> Str("n")), Absent, Absent, Absent),
     Item(FileDb("x") @@ ("note" :> Null), Absent, Absent, Absent),
     Item(FileDb("x") @@ ("tags" :> EmptyList), Absent, Absent, Absent),
     Item(FileDb("x"), Sub(("enabled" :> Boolean(FALSE)) @@ ("region" :> Str("eu"))),
          Absent, Absent),
     Item(SqlDb("x"), Absent,
          Sub(("stop_command" :> Str("stop")) @@ ("note" :> Str("n"))), Sub(DumpCommand)),
     Item(SqlDb("x"), Absent, Absent, Sub(DumpCommand @@ ("note" :> Str("n")))),
     Item(SqlDb("x"), Absent, Absent, Sub(DumpCommand @@ ("options" :> EmptyDict)))}

\* entries that do not
InvalidItems ==
    {Item("source" :> Str("src"), Absent, Absent, Absent),
     Item(FileDb(""), Absent, Absent, Absent),
     Item(FileDb("x") @@ ("type" :> Str("tape")), Absent, Absent, Absent),
     Item("name" :> Str("x"), Absent, Absent, Absent),
     Item(FileDb("x") @@ ("retention_days" :> Number(-1)), Absent, Absent, Absent),
     Item(FileDb("x") @@ ("retention_days" :> Str("week")), Absent, Absent, Absent),
     Item(SqlDb("x"), Absent, Absent, Absent),
     Item(SqlDb("x"), Absent, Sub("stop_timeout" :> Str("soon")), Sub(DumpCommand)),
     NullItem}

Items == ValidItems \cup InvalidItems

Documents ==
    {EmptyDocument, OtherDocument}
    \cup {Document(items) : items \in UNION {[1..n -> Items] : n \in 0..MaxItems}}

\* ---- the add-base command
\* the names typed at the prompt
NewNames == {"db", "DB", "y"}

\* _prompt_unique_name: the name is taken when an existing name equals it
\* case-insensitively
NameTaken(databases, name) ==
    \E i \in 1..Len(databases) : LowerName(databases[i].name.text) = LowerName(name)

\* create_database for a file database with the defaults of the prompts
NewDatabase(name) ==
    [name |-> Str(name),
     type |-> Str("file"),
     source |-> Str("src"),
     backup_directory |-> Str("backups"),
     backup_prefix |-> Null,
     retention_days |-> Number(7),
     cloud |-> CloudFromDict(NoFields),
     service |-> ServiceFromDict(NoFields),
     sql |-> SqlFromDict(NoFields),
     extra |-> NoFields]

InitConfig ==
    /\ InitBackup
    /\ only = {}
    /\ NoUploadCall
    /\ NoFunctionCall
    /\ config_pc = "start"
    /\ document \in Documents
    /\ app_config = NotLoaded
    /\ saved = EmptyDocument
    /\ reloaded = NotLoaded

\* load_application_config
LoadConfig ==
    /\ config_pc = "start"
    /\ app_config' = load_config(document)
    /\ config_pc' = IF app_config'.returned THEN "loaded" ELSE "failed"
    /\ UNCHANGED <<document, saved, reloaded, backup_vars, cloud_vars, text_vars>>

\* save_config of the AppConfig as it was loaded
SaveConfig ==
    /\ config_pc = "loaded"
    /\ saved' = AppConfigToDict(app_config.databases)
    /\ config_pc' = "saved"
    /\ UNCHANGED <<document, app_config, reloaded, backup_vars, cloud_vars, text_vars>>

\* handle_add_base: a database with a name not yet taken is appended and
\* the configuration is saved
AddBase ==
    /\ config_pc \in {"loaded", "added"}
    /\ Len(app_config.databases) <= MaxItems
    /\ \E name \in NewNames :
        /\ ~NameTaken(app_config.databases, name)
        /\ app_config' = AppConfig(add_database(app_config.databases, NewDatabase(name)))
    /\ saved' = AppConfigToDict(app_config'.databases)
    /\ config_pc' = "added"
    /\ UNCHANGED <<document, reloaded, backup_vars, cloud_vars, text_vars>>

\* load_config of the saved document
Reload ==
    /\ config_pc \in {"saved", "added"}
    /\ reloaded' = load_config(saved)
    /\ config_pc' = IF config_pc = "saved" THEN "reloaded" ELSE "restarted"
    /\ UNCHANGED <<document, app_config, saved, backup_vars, cloud_vars, text_vars>>

NextConfig == LoadConfig \/ SaveConfig \/ AddBase \/ Reload

SpecConfig == InitConfig /\ [][NextConfig]_vars

\* ------------------------------------------------ configuration properties
\* load_config was called on the document
Loaded == config_pc \notin {"idle", "start"}

\* what the specification requires of a loaded database
ValidDatabase(config) ==
    /\ config.name \notin {Null, Str("")}
    /\ config.type \in {Str("file"), Str("sql")}
    /\ config.retention_days.kind = "int" /\ config.retention_days.num >= 0
    /\ config.type = Str("file") => config.source \notin {Null, Str("")}
    /\ config.type = Str("sql") => config.sql.fields["dump_command"] \notin {Null, Str("")}

\* C22: load_config is all-or-nothing: it returns an AppConfig whose
\* databases all have a non-empty name, a type of file or sql, a
\* non-negative retention_days, a source when file and a dump command
\* when sql, or it raises ConfigError and yields no configuration; a
\* document with an invalid entry is never loaded.
C22_AllOrNothing ==
    Loaded =>
        /\ \/ /\ app_config.returned
              /\ app_config.raised = ""
              /\ Len(app_config.databases) >= Len(document.databases)
              /\ \A i \in 1..Len(app_config.databases) :
                    ValidDatabase(app_config.databases[i])
           \/ /\ ~app_config.returned
              /\ app_config.raised = "ConfigError"
              /\ app_config.databases = <<>>
        /\ (\E i \in 1..Len(document.databases) : document.databases[i] \in InvalidItems)
                => ~app_config.returned

\* C23: the databases of an AppConfig, as load_config returned it and
\* after every add-base command, have names that differ pairwise when
\* compared case-insensitively.
C23_NamesUnique ==
    (Loaded /\ app_config.returned) =>
        \A i, j \in 1..Len(app_config.databases) :
            i # j => LowerName(app_config.databases[i].name.text)
                        # LowerName(app_config.databases[j].name.text)

\* the fields of a loaded database that validation and the pipeline read
FieldValues(config) ==
    [name |-> config.name, type |-> config.type, source |-> config.source,
     backup_directory |-> config.backup_directory,
     backup_prefix |-> config.backup_prefix,
     retention_days |-> config.retention_days,
     cloud |-> config.cloud.fields, service |-> config.service.fields,
     sql |-> config.sql.fields]

\* the keys of a mapping of the original document; backup_dir is the
\* other spelling of backup_directory
KeysOf(fields) ==
    DOMAIN fields
    \cup (IF "backup_dir" \in DOMAIN fields THEN {"backup_directory"} ELSE {})

\* no key of the saved entry is absent from the original entry, at the
\* level of the record and in its cloud, service and sql records
AbsentStaysAbsent(original, written) ==
    /\ DOMAIN written.fields \subseteq KeysOf(original.fields)
    /\ written.cloud.present => original.cloud.present
    /\ written.service.present => original.service.present
    /\ written.sql.present => original.sql.present
    /\ DOMAIN written.cloud.fields \subseteq DOMAIN original.cloud.fields
    /\ DOMAIN written.service.fields \subseteq DOMAIN original.service.fields
    /\ DOMAIN written.sql.fields \subseteq DOMAIN original.sql.fields

EffectiveValues(config) ==
    [FieldValues(config) EXCEPT
        !.sql = [@ EXCEPT !["dump_extension"] = Or(@, Str(".dt")),
                          !["env_from_secrets"] = Or(@, EmptyDict)]]

\* the fields to_dict writes whether or not the document had them
DefaultedKeys == {"type", "backup_directory", "retention_days"}

\* a key of the saved entry is a key of the original entry or the key of
\* a field with a default
AbsentWithoutDefaultStaysAbsent(original, written) ==
    /\ DOMAIN written.fields \subseteq KeysOf(original.fields) \cup DefaultedKeys
    /\ DOMAIN written.cloud.fields \subseteq DOMAIN original.cloud.fields \cup {"enabled"}
    /\ written.service.present => original.service.present
    /\ DOMAIN written.service.fields \subseteq DOMAIN original.service.fields
    /\ DOMAIN written.sql.fields
            \subseteq DOMAIN original.sql.fields \cup {"dump_extension"}

Reemitted(original, written, known) ==
    \A k \in DOMAIN original \ known :
        k \in DOMAIN written /\ written[k] = original[k]

\* C25: the unknown fields of a database entry, of the entry itself and
\* of its cloud, service and sql records, are in the saved document with
\* the values the original document gave them.
C25_UnknownFieldsKept ==
    config_pc \in {"saved", "reloaded"} =>
        \A i \in 1..Len(document.databases) :
            LET original == document.databases[i]
                written == saved.databases[i] IN
            /\ Reemitted(original.fields, written.fields, KnownKeys)
            /\ Reemitted(original.cloud.fields, written.cloud.fields, CloudKeys)
            /\ Reemitted(original.service.fields, written.service.fields, ServiceKeys)
            /\ Reemitted(original.sql.fields, written.sql.fields, SqlKeys)

====
